---- MODULE Spec2Model ----
(***************************************************************************)
(* Model of NostraAlphaStateComputation                                    *)
(* (data_handler/handlers/loan_states/nostra_alpha/run.py): the ingestion  *)
(* loop `run`, the batch fold `process_data` and the per-record dispatch   *)
(* `process_event`.                                                        *)
(*                                                                         *)
(* The collaborators that live outside run.py (the upstream fetch, the     *)
(* persistence calls, the ledger operations of NostraAlphaState and the    *)
(* static routing tables) are modelled from their description in the       *)
(* specification; every such definition says so in its comment.            *)
(***************************************************************************)
EXTENDS Integers, Sequences, FiniteSets, TLC

(***************************************************************************)
(* Program constants.  run.py hard-codes max_retries = 1000000, a first    *)
(* block of 10854 and a last block of 647952; the model keeps their roles  *)
(* and scales the values down so that both ways of leaving the loop are    *)
(* reachable.                                                              *)
(***************************************************************************)
max_retries == 2

DefaultLastBlock == 1

LastBlockBound == 6

\* LoanStateComputationBase.PAGINATION_SIZE (base class, outside run.py).
PAGINATION_SIZE == 2

\* The largest number of events (both fetches together) one page returns.
MaxEvents == 2

INTEREST_RATE_MODEL_ADDRESS == "irm"

INTEREST_RATES_KEYS == {"InterestStateUpdated"}

\* NOSTRA_EVENTS_MAPPING: event name -> canonical operation name.
EVENTS_MAPPING == [k \in {"Mint"} |-> "process_mint"]

\* events.ADDRESSES_TO_EVENTS: contract address -> event category.
ADDRESSES_TO_EVENTS == [a \in {"mkt"} |-> "collateral"]

\* events.EVENTS_METHODS_MAPPING: (category, event name) -> ledger method.
EVENTS_METHODS_MAPPING ==
    [p \in {<<"collateral", "Mint">>} |-> "process_collateral_mint_event"]

Users == {"u1", "u2"}

NoUser == "-"

(***************************************************************************)
(* The upstream source.  A page fetched at checkpoint lb holds events of   *)
(* the half-open block range [lb, lb + PAGINATION_SIZE); get_data scoped   *)
(* to the interest-rate-model address returns events of that address,      *)
(* get_addresses_data events of the protocol addresses ("mkt" is routed,   *)
(* "unk" has no entry in ADDRESSES_TO_EVENTS).  Event names: "Mint" is     *)
(* tracked, "InterestStateUpdated" is the rate update, "Other" is a name   *)
(* outside the tracked set.                                                *)
(***************************************************************************)
PageBlocks(lb) == lb .. (lb + PAGINATION_SIZE - 1)

Event(a, k, b, i, u) ==
    [from_address |-> a, key_name |-> k, block_number |-> b, id |-> i, user |-> u]

InterestRateEventsIn(blocks) ==
    { Event(INTEREST_RATE_MODEL_ADDRESS, k, b, i, NoUser) :
        k \in {"InterestStateUpdated", "Mint", "Other"}, b \in blocks, i \in 1..MaxEvents }

ProtocolEventsIn(blocks) ==
    { Event("mkt", "Mint", b, i, u) : b \in blocks, i \in 1..MaxEvents, u \in Users }
    \cup
    { Event(a, k, b, i, NoUser) :
        a \in {"unk"}, k \in {"Mint"}, b \in blocks, i \in 1..MaxEvents }
    \cup
    { Event(a, k, b, i, NoUser) :
        a \in {"mkt"}, k \in {"Other"}, b \in blocks, i \in 1..MaxEvents }

InterestRateEvents(lb) == InterestRateEventsIn(PageBlocks(lb))

ProtocolEvents(lb) == ProtocolEventsIn(PageBlocks(lb))

SeqsUpTo(S, n) == UNION { [1..k -> S] : k \in 0..n }

\* The ids of one page are the distinct row ids 1..n of its n events.
DistinctIds(s) == { s[i].id : i \in 1..Len(s) } = 1..Len(s)

\* What the source can hold for one block range: the events of the
\* interest-rate-model address and those of the protocol addresses.
PagesOf(irEvents, protocolEvents) ==
    UNION { { p \in [1..k -> irEvents] \X [1..m -> protocolEvents] :
                DistinctIds(p[1] \o p[2]) } :
            <<k, m>> \in { q \in (0..MaxEvents) \X (0..MaxEvents) : q[1] + q[2] <= MaxEvents } }

upstream(lb) == PagesOf(InterestRateEvents(lb), ProtocolEvents(lb))

NoPage == <<<<>>, <<>>>>

get_data(page) == page[1]

get_addresses_data(page) == page[2]

(***************************************************************************)
(* process_data, lines 55-62: the key_name filter and the sort.            *)
(***************************************************************************)
events_with_interest_rate == DOMAIN EVENTS_MAPPING \cup INTEREST_RATES_KEYS

\* A plausible slip: the key_name filter is left out.
df_unfiltered(df) == df

df_filtered(df) == SelectSeq(df, LAMBDA e : e.key_name \in events_with_interest_rate)

\* A plausible slip: the rows are sorted by block_number alone.
KeyLess_block_only(a, b) == a.block_number < b.block_number

\* The sort key of sort_values(["block_number", "id"]).
KeyLess(a, b) ==
    \/ a.block_number < b.block_number
    \/ a.block_number = b.block_number /\ a.id < b.id

Insert(e, s) ==
    LET k == Cardinality({ i \in 1..Len(s) : KeyLess(s[i], e) })
    IN  SubSeq(s, 1, k) \o <<e>> \o SubSeq(s, k + 1, Len(s))

RECURSIVE SortRows(_)
SortRows(s) == IF s = <<>> THEN <<>> ELSE Insert(Head(s), SortRows(Tail(s)))

\* A plausible slip: the rows are iterated in arrival order.
sort_values_unsorted(df) == df

sort_values(df) == SortRows(df)

(***************************************************************************)
(* NostraAlphaState (events.py, outside run.py): the ledger.               *)
(* loan_entities maps an account to its balance and gets an entry on the   *)
(* first event that names the account; every operation applies a delta.    *)
(* interest_rate_models holds the id of the latest rate update folded.     *)
(***************************************************************************)
NostraAlphaState == [loan_entities |-> <<>>, interest_rate_models |-> 0]

process_collateral_mint_event(loan_entities, e) ==
    [u \in DOMAIN loan_entities \cup {e.user} |->
        IF u = e.user
        THEN (IF u \in DOMAIN loan_entities THEN loan_entities[u] ELSE 0) + 1
        ELSE loan_entities[u]]

process_interest_rate_model_event(interest_rate_models, e) == e.id

\* get_result_df: the tabular view of the ledger's account table.
get_result_df(loan_entities) == loan_entities

(***************************************************************************)
(* process_event, lines 86-100.  st carries self.last_block, the ledger    *)
(* and the log of what was done with each record, in order:                *)
(*   "irm"     routed to the interest-rate-model fold (lines 89-91)        *)
(*   "folded"  dispatched to a ledger operation (lines 93-98)              *)
(*   "error"   the lookup of lines 95-97 raised and was caught (99-100)    *)
(*   "skipped" the guard of line 93 was false                              *)
(***************************************************************************)
Logged(st, e, what) == Append(st.log, [event |-> e, outcome |-> what])

\* A plausible slip: the guard of line 93 tests the block number for
\* truth only and not against self.last_block.
process_event_unguarded(st, e) ==
    IF e.from_address = INTEREST_RATE_MODEL_ADDRESS
    THEN [st EXCEPT
            !.interest_rate_models = process_interest_rate_model_event(@, e),
            !.log = Logged(st, e, "irm")]
    ELSE IF e.block_number # 0
    THEN IF /\ e.from_address \in DOMAIN ADDRESSES_TO_EVENTS
            /\ <<ADDRESSES_TO_EVENTS[e.from_address], e.key_name>>
                    \in DOMAIN EVENTS_METHODS_MAPPING
         THEN [st EXCEPT
                 !.last_block = e.block_number,
                 !.loan_entities = process_collateral_mint_event(@, e),
                 !.log = Logged(st, e, "folded")]
         ELSE [st EXCEPT
                 !.last_block = e.block_number,
                 !.log = Logged(st, e, "error")]
    ELSE [st EXCEPT !.log = Logged(st, e, "skipped")]

\* A plausible slip: a failed lookup falls back to a ledger operation
\* instead of raising.
process_event_default_method(st, e) ==
    IF e.from_address = INTEREST_RATE_MODEL_ADDRESS
    THEN [st EXCEPT
            !.interest_rate_models = process_interest_rate_model_event(@, e),
            !.log = Logged(st, e, "irm")]
    ELSE IF e.block_number # 0 /\ e.block_number >= st.last_block
    THEN [st EXCEPT
            !.last_block = e.block_number,
            !.loan_entities = process_collateral_mint_event(@, e),
            !.log = Logged(st, e, "folded")]
    ELSE [st EXCEPT !.log = Logged(st, e, "skipped")]

process_event(st, e) ==
    IF e.from_address = INTEREST_RATE_MODEL_ADDRESS
    THEN [st EXCEPT
            !.interest_rate_models = process_interest_rate_model_event(@, e),
            !.log = Logged(st, e, "irm")]
    ELSE IF e.block_number # 0 /\ e.block_number >= st.last_block
    THEN IF /\ e.from_address \in DOMAIN ADDRESSES_TO_EVENTS
            /\ <<ADDRESSES_TO_EVENTS[e.from_address], e.key_name>>
                    \in DOMAIN EVENTS_METHODS_MAPPING
         THEN [st EXCEPT
                 !.last_block = e.block_number,
                 !.loan_entities = process_collateral_mint_event(@, e),
                 !.log = Logged(st, e, "folded")]
         ELSE [st EXCEPT
                 !.last_block = e.block_number,
                 !.log = Logged(st, e, "error")]
    ELSE [st EXCEPT !.log = Logged(st, e, "skipped")]

\* A plausible slip: process_event has no try/except, so the first record
\* that raises ends the loop over the rows.
RECURSIVE iterrows_abort_on_error(_, _)
iterrows_abort_on_error(st, rows) ==
    IF rows = <<>> THEN st
    ELSE LET st1 == process_event(st, Head(rows))
         IN  IF st1.log[Len(st1.log)].outcome = "error" THEN st1
             ELSE iterrows_abort_on_error(st1, Tail(rows))

RECURSIVE iterrows(_, _)
iterrows(st, rows) ==
    IF rows = <<>> THEN st ELSE iterrows(process_event(st, Head(rows)), Tail(rows))

(***************************************************************************)
(* process_data, lines 53-70: a fresh ledger, the filter, the sort, one    *)
(* process_event per row, then the export.  Returns the snapshot together  *)
(* with the value process_event left in self.last_block and the fold log.  *)
(***************************************************************************)
process_data(self_last_block, all_events_data) ==
    LET st0 == [last_block |-> self_last_block,
                loan_entities |-> NostraAlphaState.loan_entities,
                interest_rate_models |-> NostraAlphaState.interest_rate_models,
                log |-> <<>>]
        sorted_df == sort_values(df_filtered(all_events_data))
        st == iterrows(st0, sorted_df)
    IN  [last_block |-> st.last_block,
         result_df |-> get_result_df(st.loan_entities),
         log |-> st.log]

(***************************************************************************)
(* State.                                                                  *)
(*   pc                  position of the caller in run                     *)
(*   last_block, retry   self.last_block and the local retry counter       *)
(*   interest_rate_data, data, processed_data   locals of one iteration    *)
(*   upstream_page       what the source holds for the range being fetched *)
(* History (not read by any action's guard):                               *)
(*   foldLog     the log of the last process_data                          *)
(*   iters       iterations of this run that completed                     *)
(*               (the count stops at MaxIters, which no run reaches)       *)
(*   fetchBlock  last_block when the current page was fetched (0: none)    *)
(*   allEmpty    every fetch of this run returned two empty lists          *)
(*   emptyStreak iterations in a row, up to now, that took the empty branch*)
(*   seenUsers   accounts folded into a ledger by a batch of this run      *)
(*   failedAt    fetchBlock of the page whose persistence failed (0: none) *)
(***************************************************************************)
VARIABLES pc, last_block, retry, interest_rate_data, data, processed_data,
          upstream_page, foldLog, iters, fetchBlock, allEmpty, emptyStreak, seenUsers, failedAt

vars == <<pc, last_block, retry, interest_rate_data, data, processed_data,
          upstream_page, foldLog, iters, fetchBlock, allEmpty, emptyStreak, seenUsers, failedAt>>

locals == <<interest_rate_data, data, processed_data, upstream_page, foldLog, fetchBlock>>

history == <<iters, allEmpty, emptyStreak, seenUsers, failedAt>>

\* The computation object after construction; run has not been called.
Init ==
    /\ pc = "idle"
    /\ last_block = 0
    /\ retry = 0
    /\ interest_rate_data = <<>>
    /\ data = <<>>
    /\ processed_data = <<>>
    /\ upstream_page = NoPage
    /\ foldLog = <<>>
    /\ iters = 0
    /\ fetchBlock = 0
    /\ allEmpty = TRUE
    /\ emptyStreak = 0
    /\ seenUsers = {}
    /\ failedAt = 0

\* The locals of an iteration are dead once it ends.
\* Every iteration moves last_block or retry up, so a run completes fewer
\* than MaxIters iterations (ItersBelowMax); the history count stops there.
MaxIters == LastBlockBound + max_retries

Counted(n) == IF n < MaxIters THEN n + 1 ELSE n

ItersBelowMax == iters < MaxIters

DropLocals ==
    /\ interest_rate_data' = <<>>
    /\ data' = <<>>
    /\ processed_data' = <<>>
    /\ upstream_page' = NoPage
    /\ foldLog' = <<>>
    /\ fetchBlock' = 0

\* run, lines 106-111.
RunEntry ==
    /\ retry' = 0
    /\ last_block' = DefaultLastBlock
    /\ pc' = "loop"
    /\ DropLocals
    /\ iters' = 0
    /\ allEmpty' = TRUE
    /\ emptyStreak' = 0
    /\ seenUsers' = {}

Run ==
    /\ pc = "idle"
    /\ RunEntry
    /\ UNCHANGED failedAt

\* A plausible slip: the terminal block bound is never tested.
while_step_no_bound(r, lb) ==
    IF r < max_retries THEN "fetch"
    ELSE IF r = max_retries THEN "exhausted" ELSE "ended"

\* run, lines 112-115 and 141-142: where the loop head leads.
while_step(r, lb) ==
    IF r < max_retries
    THEN IF lb >= LastBlockBound THEN "done" ELSE "fetch"
    ELSE IF r = max_retries THEN "exhausted" ELSE "ended"

\* Lines 113-115, then 141: break on the last block.
LoopDone ==
    /\ pc = "loop"
    /\ while_step(retry, last_block) = "done"
    /\ pc' = "done"
    /\ UNCHANGED <<last_block, retry, locals, history>>

\* Line 112 false, then 141-142.
LoopExhausted ==
    /\ pc = "loop"
    /\ while_step(retry, last_block) \in {"exhausted", "ended"}
    /\ pc' = while_step(retry, last_block)
    /\ UNCHANGED <<last_block, retry, locals, history>>

\* Lines 112-119: the loop goes on and the interest-rate fetch is issued.
FetchInterestRate ==
    /\ pc = "loop"
    /\ while_step(retry, last_block) = "fetch"
    /\ upstream_page' \in upstream(last_block)
    /\ interest_rate_data' = get_data(upstream_page')
    /\ fetchBlock' = last_block
    /\ pc' = "fetch_data"
    /\ UNCHANGED <<last_block, retry, data, processed_data, foldLog, history>>

\* Line 120: the fetch for the protocol addresses.
FetchAddresses ==
    /\ pc = "fetch_data"
    /\ data' = get_addresses_data(upstream_page)
    /\ upstream_page' = NoPage
    /\ allEmpty' = (allEmpty /\ interest_rate_data = <<>>
                             /\ get_addresses_data(upstream_page) = <<>>)
    /\ pc' = "fetched"
    /\ UNCHANGED <<last_block, retry, interest_rate_data, processed_data, foldLog,
                   fetchBlock, iters, emptyStreak, seenUsers, failedAt>>

\* A plausible slip: the empty branch forgets to count the retry.
EmptyBatch_no_count ==
    /\ pc = "fetched"
    /\ data = <<>>
    /\ last_block' = last_block + PAGINATION_SIZE
    /\ retry' = retry
    /\ pc' = "loop"
    /\ DropLocals
    /\ iters' = Counted(iters)
    /\ emptyStreak' = emptyStreak + 1
    /\ UNCHANGED <<allEmpty, seenUsers, failedAt>>

\* A plausible slip: the empty branch counts the retry but stays on the page.
EmptyBatch_no_advance ==
    /\ pc = "fetched"
    /\ data = <<>>
    /\ last_block' = last_block
    /\ retry' = retry + 1
    /\ pc' = "loop"
    /\ DropLocals
    /\ iters' = Counted(iters)
    /\ emptyStreak' = emptyStreak + 1
    /\ UNCHANGED <<allEmpty, seenUsers, failedAt>>

\* Lines 122-126.
EmptyBatch ==
    /\ pc = "fetched"
    /\ data = <<>>
    /\ last_block' = last_block + PAGINATION_SIZE
    /\ retry' = retry + 1
    /\ pc' = "loop"
    /\ DropLocals
    /\ iters' = Counted(iters)
    /\ emptyStreak' = emptyStreak + 1
    /\ UNCHANGED <<allEmpty, seenUsers, failedAt>>

\* The call self.process_data(all_events_data) of line 130 and what it
\* leaves behind: the snapshot, and self.last_block as process_event set it.
FoldBatch ==
    /\ processed_data' = process_data(last_block, interest_rate_data \o data).result_df
    /\ foldLog' = process_data(last_block, interest_rate_data \o data).log
    /\ seenUsers' = seenUsers \cup DOMAIN processed_data'
    /\ last_block' = process_data(last_block, interest_rate_data \o data).last_block
    /\ UNCHANGED <<retry, interest_rate_data, data, upstream_page, fetchBlock,
                   iters, allEmpty, emptyStreak, failedAt>>

\* A plausible slip: the checkpoint is advanced right after the fold.
ProcessData_then_advance ==
    /\ pc = "fetched"
    /\ data # <<>>
    /\ FoldBatch
    /\ pc' = "advance"

\* Lines 129-130.
ProcessData ==
    /\ pc = "fetched"
    /\ data # <<>>
    /\ FoldBatch
    /\ pc' = "save"

\* Line 133, save_data returns.
SaveData ==
    /\ pc = "save"
    /\ pc' = "save_ir"
    /\ UNCHANGED <<last_block, retry, locals, history>>

\* Line 134, save_interest_rate_data returns.
SaveInterestRateData ==
    /\ pc = "save_ir"
    /\ pc' = "advance"
    /\ UNCHANGED <<last_block, retry, locals, history>>

\* Line 133 or 134 raises: run has no handler, the exception leaves it.
PersistenceFails ==
    /\ pc \in {"save", "save_ir"}
    /\ pc' = "failed"
    /\ failedAt' = fetchBlock
    /\ UNCHANGED <<last_block, retry, locals, iters, allEmpty, emptyStreak, seenUsers>>

\* A plausible slip: the retry counter is not reset after a processed page.
Advance_keeps_retry ==
    /\ pc = "advance"
    /\ last_block' = last_block + PAGINATION_SIZE
    /\ retry' = retry
    /\ pc' = "loop"
    /\ DropLocals
    /\ iters' = Counted(iters)
    /\ emptyStreak' = 0
    /\ UNCHANGED <<allEmpty, seenUsers, failedAt>>

\* A plausible slip: a processed page does not move the checkpoint.
Advance_stays_on_page ==
    /\ pc = "advance"
    /\ last_block' = last_block
    /\ retry' = 0
    /\ pc' = "loop"
    /\ DropLocals
    /\ iters' = Counted(iters)
    /\ emptyStreak' = 0
    /\ UNCHANGED <<allEmpty, seenUsers, failedAt>>

\* Lines 137-139.
Advance ==
    /\ pc = "advance"
    /\ last_block' = last_block + PAGINATION_SIZE
    /\ retry' = 0
    /\ pc' = "loop"
    /\ DropLocals
    /\ iters' = Counted(iters)
    /\ emptyStreak' = 0
    /\ UNCHANGED <<allEmpty, seenUsers, failedAt>>

Next ==
    \/ Run
    \/ LoopDone
    \/ LoopExhausted
    \/ FetchInterestRate
    \/ FetchAddresses
    \/ EmptyBatch
    \/ ProcessData
    \/ SaveData
    \/ SaveInterestRateData
    \/ PersistenceFails
    \/ Advance

Spec == Init /\ [][Next]_vars

(***************************************************************************)
(* run called again on the same object after an exception left it.         *)
(***************************************************************************)
Rerun ==
    /\ pc = "failed"
    /\ RunEntry
    /\ UNCHANGED failedAt

NextRerun == Next \/ Rerun

SpecRerun == Init /\ [][NextRerun]_vars

(***************************************************************************)
(* process_data called twice in a row on the same object with the same     *)
(* non-empty page, fetched at the default checkpoint, and no advance of    *)
(* the checkpoint by the loop in between.                                  *)
(***************************************************************************)
InitReplay ==
    /\ pc = "replay0"
    /\ last_block = DefaultLastBlock
    /\ retry = 0
    /\ \E page \in upstream(DefaultLastBlock) :
          /\ get_addresses_data(page) # <<>>
          /\ interest_rate_data = get_data(page)
          /\ data = get_addresses_data(page)
    /\ processed_data = <<>>
    /\ upstream_page = NoPage
    /\ foldLog = <<>>
    /\ iters = 0
    /\ fetchBlock = DefaultLastBlock
    /\ allEmpty = FALSE
    /\ emptyStreak = 0
    /\ seenUsers = {}
    /\ failedAt = 0

ReplayOnce ==
    /\ pc = "replay0"
    /\ FoldBatch
    /\ pc' = "replay1"

ReplayTwice ==
    /\ pc = "replay1"
    /\ FoldBatch
    /\ pc' = "replay2"

NextReplay == ReplayOnce \/ ReplayTwice

SpecReplay == InitReplay /\ [][NextReplay]_vars

(***************************************************************************)
(* run when every fetch and every persistence call returns: no exception   *)
(* leaves the loop, and a sequential program takes its next step.          *)
(***************************************************************************)
NextLive ==
    \/ Run
    \/ LoopDone
    \/ LoopExhausted
    \/ FetchInterestRate
    \/ FetchAddresses
    \/ EmptyBatch
    \/ ProcessData
    \/ SaveData
    \/ SaveInterestRateData
    \/ Advance

Positions == {"idle", "loop", "fetch_data", "fetched", "save", "save_ir",
              "advance", "done", "exhausted", "ended", "failed"}

Stopped == {"done", "exhausted", "ended", "failed"}

\* Control leaves the position it is at.  Under [][NextLive]_vars the
\* program counter changes by a step of NextLive only, and every position
\* outside Stopped has such a step (NextLiveEnabled), so fairness on this
\* action is fairness on NextLive.
TakeStep == pc \notin Stopped /\ pc' \in Positions \ {pc}

NextLiveEnabled == pc \notin Stopped => ENABLED NextLive

SpecLive == Init /\ [][NextLive]_vars /\ WF_pc(TakeStep)

(***************************************************************************)
(* process_data called once with any self.last_block and any non-empty     *)
(* batch, block numbers below self.last_block and the falsy block number 0 *)
(* included.                                                               *)
(***************************************************************************)
FoldMaxBlock == 2

InitFold ==
    /\ pc = "fold0"
    /\ last_block \in 0..FoldMaxBlock
    /\ retry = 0
    /\ \E page \in PagesOf(InterestRateEventsIn(0..FoldMaxBlock),
                            ProtocolEventsIn(0..FoldMaxBlock)) :
          /\ get_addresses_data(page) # <<>>
          /\ interest_rate_data = get_data(page)
          /\ data = get_addresses_data(page)
    /\ processed_data = <<>>
    /\ upstream_page = NoPage
    /\ foldLog = <<>>
    /\ iters = 0
    /\ fetchBlock = last_block
    /\ allEmpty = FALSE
    /\ emptyStreak = 0
    /\ seenUsers = {}
    /\ failedAt = 0

FoldOnce ==
    /\ pc = "fold0"
    /\ FoldBatch
    /\ pc' = "fold1"

NextFold == FoldOnce

SpecFold == InitFold /\ [][NextFold]_vars

(***************************************************************************)
(* Properties.                                                             *)
(***************************************************************************)
Folded == {"save", "save_ir", "advance", "failed"}

\* C1: at the loop head, after N completed iterations of this run, the
\* checkpoint last_block equals initial + N x pageSize.
C1_CheckpointIsInitialPlusNPages ==
    pc = "loop" => last_block = DefaultLastBlock + iters * PAGINATION_SIZE

\* C2: when persistence fails for a batch the loop stops with last_block
\* still at the value it had when that batch was fetched.
C2_CheckpointKeptWhenPersistenceFails ==
    pc = "failed" => last_block = fetchBlock

C4_RetryExhaustionOnEmptyBatches ==
    allEmpty =>
        /\ pc \in {"loop", "fetch_data", "fetched", "done", "exhausted"} =>
              /\ retry = iters
              /\ last_block = DefaultLastBlock + iters * PAGINATION_SIZE
        /\ pc = "exhausted" => iters = max_retries
        /\ pc = "done" => (iters < max_retries /\ last_block >= LastBlockBound)
        /\ pc \notin {"ended", "save", "save_ir", "advance", "failed"}

\* C4 witness: the loop stopped on the retry bound, below the terminal
\* block bound, after nothing but empty batches.
C4_ExhaustedBelowBound ==
    /\ pc = "exhausted"
    /\ allEmpty
    /\ last_block < LastBlockBound

\* C5: processing the same batch a second time, with no checkpoint advance
\* by the loop in between, exports the same snapshot as the first time.
C5_ReplayExportsSameSnapshot ==
    [][(pc = "replay1" /\ pc' = "replay2") => processed_data' = processed_data]_vars

\* C6: the empty-batch branch is taken if and only if the union of the two
\* fetch results is empty.
C6_EmptyBranchIffUnionEmpty ==
    [][pc = "fetched" =>
          ((pc' = "loop") <=> (interest_rate_data = <<>> /\ data = <<>>))]_vars

\* C7: after a persistence failure, run called again fetches first at the
\* checkpoint at which the failed batch was fetched.
C7_RerunResumesAtFailedCheckpoint ==
    (pc = "fetched" /\ failedAt # 0 /\ iters = 0) => fetchBlock = failedAt

\* C8: every account folded into the ledger by a batch of this run is in
\* the snapshot exported for the current batch.
C8_AccountsKeptAcrossBatches ==
    pc \in Folded => seenUsers \subseteq DOMAIN processed_data

\* C9 (as stated): from the loop head with last_block at or above the
\* terminal block bound the loop ends in DONE, whatever the retry counter.
C9_DoneWheneverBoundReached ==
    [][(pc = "loop" /\ last_block >= LastBlockBound) => pc' = "done"]_vars

\* C9 (amended): from the loop head with last_block at or above the
\* terminal block bound no fetch is issued; the loop ends in DONE when
\* retry < max_retries and in RETRY_EXHAUSTED when the retry counter has
\* reached max_retries in that same step.
C9_NoFetchOnceBoundReached ==
    [][(pc = "loop" /\ last_block >= LastBlockBound) =>
          pc' = (IF retry < max_retries THEN "done" ELSE "exhausted")]_vars

\* C9 witness: the loop ended on the retry bound with last_block at or
\* above the terminal block bound.
C9_ExhaustedAtBound ==
    /\ pc = "exhausted"
    /\ last_block >= LastBlockBound

UnmappedPair(e) ==
    /\ e.from_address # INTEREST_RATE_MODEL_ADDRESS
    /\ e.key_name \in events_with_interest_rate
    /\ \/ e.from_address \notin DOMAIN ADDRESSES_TO_EVENTS
       \/ <<ADDRESSES_TO_EVENTS[e.from_address], e.key_name>>
              \notin DOMAIN EVENTS_METHODS_MAPPING

HasError(log) == \E i \in DOMAIN log : log[i].outcome = "error"

\* C11: a record whose fold raises is the only thing lost: the other
\* records are folded in the same order and with the same effect as if the
\* failing records were not in the batch, process_data returns that
\* snapshot, and the loop advances the checkpoint for the batch.
C11_FailingRecordAloneIsSkipped ==
    [][/\ (pc = "fetched" /\ pc' = "save") =>
            LET batch == interest_rate_data \o data
                rest == process_data(last_block,
                                     SelectSeq(batch, LAMBDA e : ~UnmappedPair(e)))
            IN  /\ processed_data' = rest.result_df
                /\ SelectSeq(foldLog', LAMBDA x : x.outcome # "error") = rest.log
                /\ \A i \in DOMAIN foldLog' :
                      foldLog'[i].outcome = "error" <=> UnmappedPair(foldLog'[i].event)
       /\ (pc = "advance" /\ HasError(foldLog)) =>
            /\ pc' = "loop"
            /\ last_block' = last_block + PAGINATION_SIZE]_vars

\* C11 witness: a batch in which a record failed and a later record was
\* folded has been persisted and is about to advance the checkpoint.
C11_FoldedAfterFailedRecord ==
    /\ pc = "advance"
    /\ \E i, j \in DOMAIN foldLog :
          /\ i < j
          /\ foldLog[i].outcome = "error"
          /\ foldLog[j].outcome = "folded"

\* The number of records of a batch that name account u and are routed to
\* a ledger operation.
MappedFor(batch, u) ==
    Cardinality({ i \in DOMAIN batch :
                    /\ batch[i].user = u
                    /\ batch[i].from_address # INTEREST_RATE_MODEL_ADDRESS
                    /\ batch[i].key_name \in events_with_interest_rate
                    /\ ~UnmappedPair(batch[i]) })

\* C12: a record with an unmapped (address, event name) pair invokes no
\* ledger operation and changes no account: process_data still completes
\* and the snapshot holds exactly the deltas of the mapped records.
C12_UnmappedPairChangesNoAccount ==
    pc \in Folded =>
        /\ \A i \in DOMAIN foldLog :
              UnmappedPair(foldLog[i].event) => foldLog[i].outcome # "folded"
        /\ DOMAIN processed_data =
              { u \in Users : MappedFor(interest_rate_data \o data, u) > 0 }
        /\ \A u \in DOMAIN processed_data :
              processed_data[u] = MappedFor(interest_rate_data \o data, u)

\* C12 witness: a record from an address without an entry in
\* ADDRESSES_TO_EVENTS was dispatched, next to a record that was folded.
C12_UnmappedAddressDispatched ==
    /\ pc = "save"
    /\ DOMAIN processed_data # {}
    /\ \E i \in DOMAIN foldLog :
          /\ foldLog[i].event.from_address \notin DOMAIN ADDRESSES_TO_EVENTS
          /\ foldLog[i].event.from_address # INTEREST_RATE_MODEL_ADDRESS
          /\ foldLog[i].outcome = "error"

RoutedToInterestRateFold(log, e) ==
    \E j \in DOMAIN log : log[j] = [event |-> e, outcome |-> "irm"]

\* C13 (as stated): every event of the batch that comes from the
\* interest-rate-model address is routed to the interest-rate-model fold,
\* whatever its key_name.
C13_EveryInterestRateEventRouted ==
    pc \in Folded =>
        \A i \in DOMAIN interest_rate_data :
            RoutedToInterestRateFold(foldLog, interest_rate_data[i])

\* C13 (amended): an event of the batch that comes from the
\* interest-rate-model address is routed to the interest-rate-model fold
\* exactly when its key_name passes the filter of process_data (a key of
\* EVENTS_MAPPING or "InterestStateUpdated"), whatever that name is; with
\* any other key_name it is dropped by the filter before routing.  No
\* event of that address is dispatched anywhere else.
C13_FilteredInterestRateEventsRouted ==
    pc \in Folded =>
        /\ \A i \in DOMAIN interest_rate_data :
              RoutedToInterestRateFold(foldLog, interest_rate_data[i])
                  <=> interest_rate_data[i].key_name \in events_with_interest_rate
        /\ \A j \in DOMAIN foldLog :
              foldLog[j].event.from_address = INTEREST_RATE_MODEL_ADDRESS
                  => foldLog[j].outcome = "irm"

\* C13 witness: an event of the interest-rate-model address whose name is
\* not "InterestStateUpdated" went to the interest-rate-model fold.
C13_OtherNameRouted ==
    /\ pc = "save"
    /\ \E j \in DOMAIN foldLog :
          /\ foldLog[j].outcome = "irm"
          /\ foldLog[j].event.key_name \notin INTEREST_RATES_KEYS

\* C14: of two ordinary events of one batch that are both folded, the one
\* with the smaller (block_number, id) is folded first, whatever the order
\* of the input list.
C14_OrdinaryFoldedAscending ==
    \A i, j \in DOMAIN foldLog :
        ( /\ foldLog[i].outcome = "folded"
          /\ foldLog[j].outcome = "folded"
          /\ \/ foldLog[i].event.block_number < foldLog[j].event.block_number
             \/ /\ foldLog[i].event.block_number = foldLog[j].event.block_number
                /\ foldLog[i].event.id < foldLog[j].event.id )
        => i < j

\* C14 witness: two ordinary events that arrived in descending id order
\* within one block were both folded, in the opposite order.
C14_ArrivalOrderReversed ==
    /\ pc = "save"
    /\ Len(data) = 2
    /\ Len(foldLog) = 2
    /\ foldLog[1].outcome = "folded"
    /\ foldLog[2].outcome = "folded"
    /\ foldLog[1].event = data[2]
    /\ foldLog[2].event = data[1]
    /\ data[1].block_number = data[2].block_number

\* C15: within one invocation of run last_block never decreases at any
\* step, and every completed iteration leaves it strictly above the value
\* it had when the iteration started.
C15_LastBlockNeverDecreases ==
    [][/\ pc # "idle" => last_block' >= last_block
       /\ (pc \in {"fetched", "advance"} /\ pc' = "loop") => last_block' > fetchBlock]_vars

\* C15 witness: the fold of a page has moved last_block above the value it
\* had when the page was fetched, in a later iteration of the run.
C15_FoldMovedLastBlock ==
    /\ pc = "advance"
    /\ iters > 0
    /\ last_block > fetchBlock

C17_RunTerminates ==
    /\ (pc # "idle") ~> (pc \in {"done", "exhausted"})
    /\ [](pc = "done" => last_block >= LastBlockBound)
    /\ [](pc = "exhausted" => retry = max_retries)

\* C17 witness: the loop ended on the terminal block bound after pages
\* with data and pages without.
C17_DoneAfterMixedPages ==
    /\ pc = "done"
    /\ ~allEmpty
    /\ emptyStreak > 0

Max(S) == CHOOSE x \in S : \A y \in S : y <= x

Ordinary(e) == e.from_address # INTEREST_RATE_MODEL_ADDRESS

\* C18 (as stated): after process_data last_block is the maximum of its
\* value before and the block numbers of the batch's ordinary events.
C18_LastBlockIsMaxOfOrdinaryBlocks ==
    [][(pc = "fold0" /\ pc' = "fold1") =>
          last_block' = Max({last_block} \cup
                            { data[i].block_number : i \in { k \in DOMAIN data : Ordinary(data[k]) } })]_vars

\* self.last_block as record j of the fold log found it.
LastBlockBefore(start, log, j) ==
    Max({start} \cup { log[i].event.block_number :
                          i \in { k \in 1..(j - 1) : log[k].outcome \in {"folded", "error"} } })

\* C18 (amended): process_event takes an ordinary event past the guard only
\* when its block_number is non-zero and at least the current last_block,
\* and sets last_block to it before the lookup and the dispatch; events of
\* the interest-rate-model address are folded without the guard and leave
\* last_block alone.  Hence after process_data last_block is the maximum of
\* its value before and the block numbers of the batch's ordinary events
\* whose key_name passes the filter of process_data.
C18_LastBlockIsMaxOfFilteredOrdinaryBlocks ==
    [][(pc = "fold0" /\ pc' = "fold1") =>
          /\ last_block' =
                Max({last_block} \cup
                    { data[i].block_number :
                        i \in { k \in DOMAIN data :
                                  /\ Ordinary(data[k])
                                  /\ data[k].key_name \in events_with_interest_rate } })
          /\ \A j \in DOMAIN foldLog' :
                LET e == foldLog'[j].event
                    lb == LastBlockBefore(last_block, foldLog', j)
                IN  /\ foldLog'[j].outcome = "irm" <=> ~Ordinary(e)
                    /\ foldLog'[j].outcome \in {"folded", "error"} <=>
                          (Ordinary(e) /\ e.block_number # 0 /\ e.block_number >= lb)
                    /\ foldLog'[j].outcome = "folded" => ~UnmappedPair(e)]_vars

\* C18 witness: one process_data call skipped an ordinary event at the
\* guard, folded another and left last_block above its value before.
C18_SkippedAndFolded ==
    /\ pc = "fold1"
    /\ \E i \in DOMAIN foldLog : foldLog[i].outcome = "skipped"
    /\ \E i \in DOMAIN foldLog : foldLog[i].outcome = "folded"
    /\ last_block > fetchBlock

====
